---- MODULE Spec2Model ----
(***************************************************************************)
(* Model of tools/data-model-exporter/data_model_exporter/dmExporter.py:   *)
(* the command line (get_arguments), the extraction of one JSON Schema     *)
(* document per class from an RDF graph (ttl_to_json, rdf_to_json) and the *)
(* per-class file writing loop (main, write_to_json).                      *)
(*                                                                         *)
(* Texts, IRIs and literals are tuples of strings; <<>> stands for Python  *)
(* None (JSON null).  An IRI is <<namespace, local name>>.  The graph is a *)
(* set of <<subject, predicate, object>> triples, as in rdflib.            *)
(***************************************************************************)
EXTENDS Integers, Sequences, FiniteSets, TLC

\* ---- bounds of the model ------------------------------------------------
MaxContainers == 2  \* owl:equivalentClass containers of the extracted class
MaxCard       == 2  \* largest owl:cardinality value in a graph
MaxClasses    == 2  \* longest --class-list
MaxLines      == 2  \* longest class file

\* ---- Python values ------------------------------------------------------
NoneVal  == <<>>
EmptyStr == <<"">>

\* bool(x) of an optional string or list: None, '' and [] are falsy
Truthy(x) == x # NoneVal /\ x # EmptyStr

\* str(x): str(None) is the text 'None'
StrIdentity(x) == x
Str(x) == IF x = NoneVal THEN <<"None">> ELSE x

\* ---- namespaces and terms -----------------------------------------------
TerraNS == "http://datamodel.terra.bio/TerraDCAT_ap#"
ProvNS  == "http://www.w3.org/ns/prov#"
OwlNS   == "http://www.w3.org/2002/07/owl#"
RdfsNS  == "http://www.w3.org/2000/01/rdf-schema#"
XsdNS   == "http://www.w3.org/2001/XMLSchema#"
ExNS    == "http://example.org/"
OtherNS == "http://unbound.example.net/"

Terra(class_name) == <<TerraNS, class_name>>
OWL_equivalentClass == <<OwlNS, "equivalentClass">>
OWL_cardinality     == <<OwlNS, "cardinality">>
OWL_onProperty      == <<OwlNS, "onProperty">>
RDFS_range          == <<RdfsNS, "range">>
RDFS_label          == <<RdfsNS, "label">>
Prov_definition     == <<ProvNS, "definition">>

\* prefixes bound in g.namespace_manager (rdflib's defaults and the
\* @prefix lines of the Turtle file); OtherNS is bound to no prefix
BoundPrefix == [ns \in {TerraNS, ProvNS, OwlNS, RdfsNS, XsdNS, ExNS} |->
                 CASE ns = TerraNS -> "TerraDCAT_ap"
                   [] ns = ProvNS  -> "prov"
                   [] ns = OwlNS   -> "owl"
                   [] ns = RdfsNS  -> "rdfs"
                   [] ns = XsdNS   -> "xsd"
                   [] ns = ExNS    -> "ex"]

\* term.n3(g.namespace_manager): prefix:local when the namespace is bound,
\* <full IRI> otherwise
N3LocalOnly(term) == <<term[2]>>
N3(term) == IF term[1] \in DOMAIN BoundPrefix
            THEN <<BoundPrefix[term[1]], ":", term[2]>>
            ELSE <<"<", term[1], term[2], ">">>

\* an integer literal, and Literal.value
Literal(n) == <<ToString(n), "^^", XsdNS, "integer">>
LiteralValue(lit) == CHOOSE n \in 0..MaxCard : ToString(n) = lit[1]

\* ---- the graphs ---------------------------------------------------------
ClassNames == {"Foo", "Bar"}
Props      == {<<ExNS, "bar">>, <<OtherNS, "bar">>}
RangeTerm  == <<XsdNS, "string">>

BNode(class_name, i) == <<"_:", class_name, ToString(i)>>
LabelOf(class_name)      == <<class_name, " label">>
DefinitionOf(class_name) == <<class_name, " definition">>

\* an optional value: no value or one value
Opt(S) == {{}} \cup {{x} : x \in S}

ContainerDescs == [onProperty : Opt(Props), cardinality : Opt(0..MaxCard)]
ClassDescs == [conts : UNION {[1..k -> ContainerDescs] : k \in 0..MaxContainers},
               label : BOOLEAN, definition : BOOLEAN]

\* the triples a class description stands for
ClassTriples(c, d) ==
  {<<Terra(c), OWL_equivalentClass, BNode(c, i)>> : i \in DOMAIN d.conts}
  \cup UNION {{<<BNode(c, i), OWL_onProperty, p>> : p \in d.conts[i].onProperty}
              : i \in DOMAIN d.conts}
  \cup UNION {{<<BNode(c, i), OWL_cardinality, Literal(n)>> : n \in d.conts[i].cardinality}
              : i \in DOMAIN d.conts}
  \cup (IF d.label THEN {<<Terra(c), RDFS_label, LabelOf(c)>>} ELSE {})
  \cup (IF d.definition THEN {<<Terra(c), Prov_definition, DefinitionOf(c)>>} ELSE {})

AbsentClass == [conts |-> <<>>, label |-> FALSE, definition |-> FALSE]
GoodClass == [conts |-> <<[onProperty |-> {<<ExNS, "bar">>}, cardinality |-> {1}]>>,
              label |-> TRUE, definition |-> TRUE]
MalformedClass == [conts |-> <<[onProperty |-> {}, cardinality |-> {1}]>>,
                   label |-> TRUE, definition |-> TRUE]

\* g.triples((s, None, None)) and g.value(s, p, None): the graphs of the
\* model have at most one value per subject and predicate; g.value returns
\* it, or None when there is none
GTriples(g, s) == {t \in g : t[1] = s}
GValue(g, s, p) == LET vs == {t[3] : t \in {u \in g : u[1] = s /\ u[2] = p}}
                   IN  IF vs = {} THEN NoneVal ELSE CHOOSE v \in vs : TRUE

\* ---- files --------------------------------------------------------------
Absent     == <<>>
OldContent == <<"old">>
FileName(key) == <<key, ".json">>
FileNames == {FileName(c) : c \in ClassNames}
JsonDump(doc) == <<"json", doc>>

ClassPath == <<"class_name.txt">>
Lines == {"Foo\n", " Bar \n", "\n"}
Strip(line) == CASE line = "Foo\n"   -> "Foo"
                 [] line = " Bar \n" -> "Bar"
                 [] OTHER            -> ""
NoFile == <<"<no such file>">>
Responses == {"y", "n", "Y", ""}

VARIABLES args, class_file, graph, ttl_valid, files,
          pc, exit_code, class_list, idx, json_dict, json_keys,
          rdf_term, term_triples, container_node, prop, properties, required,
          discovered, json_schema, keys, rewrite, written, prompted

vars == <<args, class_file, graph, ttl_valid, files,
          pc, exit_code, class_list, idx, json_dict, json_keys,
          rdf_term, term_triples, container_node, prop, properties, required,
          discovered, json_schema, keys, rewrite, written, prompted>>

inputVars  == <<args, class_file, graph, ttl_valid>>
localVars  == <<rdf_term, term_triples, container_node, prop, properties,
                required, discovered, json_schema>>
outputVars == <<files, keys, rewrite, written, prompted>>

\* ---- ttl_to_json --------------------------------------------------------
EmptyMap == <<>>
Put(map, k, v) == [x \in DOMAIN map \cup {k} |-> IF x = k THEN v ELSE map[x]]

InitialProperties ==
  [k \in {<<"describedBy">>, <<"id">>} |->
     IF k = <<"id">>
     THEN ("description" :> <<"UUID for this entity.">>) @@ ("type" :> <<"string">>)
     ELSE ("description" :>
             <<"The URL reference to the JSON Schema that defines this object.">>)
          @@ ("type" :> <<"string">>)]

InitialRequired == << <<"id">>, <<"describedBy">> >>

\* the entry stored under a property's compact key (lines 104-107)
PropertyEntryCompactRef(ref, rdfs_range_value) ==
  ("description" :> ref)
  @@ ("$ref" :> IF rdfs_range_value = NoneVal THEN NoneVal ELSE N3(rdfs_range_value))
PropertyEntry(ref, rdfs_range_value) ==
  ("description" :> ref) @@ ("$ref" :> rdfs_range_value)

\* line 110: `cardinality and cardinality.value == 1`; a Literal is truthy
\* when its value is
CardinalityAtLeastOne(cardinality) ==
  cardinality # NoneVal /\ LiteralValue(cardinality) >= 1
CardinalityIsOne(cardinality) ==
  /\ cardinality # NoneVal
  /\ LiteralValue(cardinality) # 0
  /\ LiteralValue(cardinality) = 1

\* line 111: required.append(...)
PrependRequired(req, key) == <<key>> \o req
AppendRequired(req, key) == Append(req, key)

\* line 100: prop is None, prop.n3 raises AttributeError, nothing catches it
SkipTriple == "for_triple"
OnMissingProperty == "aborted"

\* line 116: 'title' is the label itself; line 118: 'description' is str(...)
TitleAsStr(label) == Str(label)
Title(label) == label
Description(definition) == Str(definition)

Schema(term, title, description, props, req) ==
  ("$id" :> term)
  @@ ("$schema" :> <<"http://json-schema.org/draft-07/schema#/">>)
  @@ ("title" :> title)
  @@ ("description" :> description)
  @@ ("definitions" :> EmptyMap)
  @@ ("type" :> <<"object">>)
  @@ ("additionalProperties" :> TRUE)
  @@ ("properties" :> props)
  @@ ("required" :> req)

\* lines 71-90: open and parse the Turtle file, set up the accumulators
TtlToJsonBegin ==
  /\ pc = "ttl_to_json"
  /\ IF ttl_valid
     THEN /\ rdf_term' = Terra(class_list[idx])
          /\ properties' = InitialProperties
          /\ required' = InitialRequired
          /\ term_triples' = GTriples(graph, Terra(class_list[idx]))
          /\ discovered' = <<>>
          /\ pc' = "for_triple"
          /\ UNCHANGED exit_code
     ELSE /\ pc' = "aborted"
          /\ exit_code' = 1
          /\ UNCHANGED <<rdf_term, properties, required, term_triples, discovered>>
  /\ UNCHANGED <<inputVars, outputVars, class_list, idx, json_dict, json_keys,
                 container_node, prop, json_schema>>

\* lines 91-107: one iteration of the loop, up to the properties entry
ForTriple ==
  /\ pc = "for_triple"
  /\ \E triple \in term_triples :
       /\ term_triples' = term_triples \ {triple}
       /\ IF triple[2] = OWL_equivalentClass
          THEN LET node == triple[3]
                   p    == GValue(graph, node, OWL_onProperty)
               IN  /\ container_node' = node
                   /\ prop' = p
                   /\ IF p = NoneVal
                      THEN /\ pc' = OnMissingProperty
                           /\ exit_code' = IF OnMissingProperty = "aborted"
                                           THEN 1 ELSE exit_code
                           /\ UNCHANGED <<properties, discovered>>
                      ELSE /\ properties' =
                                Put(properties, N3(p),
                                    PropertyEntry(N3(p), GValue(graph, p, RDFS_range)))
                           /\ discovered' = Append(discovered, node)
                           /\ pc' = "if_cardinality"
                           /\ UNCHANGED exit_code
          ELSE UNCHANGED <<container_node, prop, properties, discovered, pc, exit_code>>
  /\ UNCHANGED <<inputVars, outputVars, class_list, idx, json_dict, json_keys,
                 rdf_term, required, json_schema>>

\* lines 109-111: the rest of the iteration
IfCardinality ==
  /\ pc = "if_cardinality"
  /\ required' = IF CardinalityIsOne(GValue(graph, container_node, OWL_cardinality))
                 THEN AppendRequired(required, N3(prop))
                 ELSE required
  /\ pc' = "for_triple"
  /\ UNCHANGED <<inputVars, outputVars, exit_code, class_list, idx, json_dict,
                 json_keys, rdf_term, term_triples, container_node, prop,
                 properties, discovered, json_schema>>

\* lines 113-125: the loop is over, assemble and return the document
TtlToJsonReturn ==
  /\ pc = "for_triple"
  /\ term_triples = {}
  /\ json_schema' = Schema(rdf_term,
                           Title(GValue(graph, rdf_term, RDFS_label)),
                           Description(GValue(graph, rdf_term, Prov_definition)),
                           properties, required)
  /\ pc' = "returned"
  /\ UNCHANGED <<inputVars, outputVars, exit_code, class_list, idx, json_dict,
                 json_keys, rdf_term, term_triples, container_node, prop,
                 properties, required, discovered>>

\* ---- extraction of one class from any graph -----------------------------
InitExtract ==
  /\ args = [file_path |-> <<"model.ttl">>, class_list |-> <<"Foo">>,
             class_path |-> NoneVal]
  /\ class_file = NoFile
  /\ \E d \in ClassDescs, r \in Opt({RangeTerm}) :
       graph = ClassTriples("Foo", d) \cup {<<<<ExNS, "bar">>, RDFS_range, x>> : x \in r}
  /\ ttl_valid \in BOOLEAN
  /\ files = [n \in FileNames |-> Absent]
  /\ pc = "ttl_to_json"
  /\ exit_code = 0
  /\ class_list = <<"Foo">>
  /\ idx = 1
  /\ json_dict = EmptyMap
  /\ json_keys = <<>>
  /\ rdf_term = NoneVal
  /\ term_triples = {}
  /\ container_node = NoneVal
  /\ prop = NoneVal
  /\ properties = EmptyMap
  /\ required = <<>>
  /\ discovered = <<>>
  /\ json_schema = NoneVal
  /\ keys = <<>>
  /\ rewrite = ""
  /\ written = {}
  /\ prompted = {}

NextExtract == TtlToJsonBegin \/ ForTriple \/ IfCardinality \/ TtlToJsonReturn

SpecExtract == InitExtract /\ [][NextExtract]_vars

\* ---- get_arguments ------------------------------------------------------
\* lines 51-56: the stripped, non-blank lines of the class file
RECURSIVE ParseClassFile(_)
ParseClassFile(ls) ==
  IF ls = <<>> THEN <<>>
  ELSE LET strip_line == Strip(Head(ls))
       IN  IF strip_line = "" THEN ParseClassFile(Tail(ls))
           ELSE <<strip_line>> \o ParseClassFile(Tail(ls))

\* lines 38-61, and line 147 of main, which unpacks the result
GetArguments ==
  /\ pc = "get_arguments"
  /\ IF args.class_list = NoneVal /\ args.class_path = NoneVal
     THEN /\ pc' = "exit" /\ exit_code' = 1 /\ UNCHANGED class_list
     ELSE IF Truthy(args.class_list) /\ Truthy(args.class_path)
     THEN /\ pc' = "exit" /\ exit_code' = 1 /\ UNCHANGED class_list
     ELSE IF Truthy(args.class_list)
     THEN /\ class_list' = args.class_list
          /\ pc' = "rdf_to_json" /\ UNCHANGED exit_code
     ELSE IF Truthy(args.class_path)
     THEN IF class_file = NoFile
          THEN /\ pc' = "aborted" /\ exit_code' = 1 /\ UNCHANGED class_list
          ELSE /\ class_list' = ParseClassFile(class_file)
               /\ pc' = "rdf_to_json" /\ UNCHANGED exit_code
     ELSE \* logs an error and returns None, which main cannot unpack
          /\ pc' = "aborted" /\ exit_code' = 1 /\ UNCHANGED class_list
  /\ UNCHANGED <<inputVars, outputVars, localVars, idx, json_dict, json_keys>>

\* ---- rdf_to_json --------------------------------------------------------
\* line 135: the comprehension calls ttl_to_json for the next class name,
\* or is over and the dictionary goes to main's loop (lines 149-151)
RdfToJson ==
  /\ pc = "rdf_to_json"
  /\ IF idx <= Len(class_list)
     THEN /\ pc' = "ttl_to_json" /\ UNCHANGED keys
     ELSE /\ pc' = "main_loop" /\ keys' = json_keys
  /\ UNCHANGED <<inputVars, localVars, files, rewrite, written, prompted,
                 exit_code, class_list, idx, json_dict, json_keys>>

\* line 135: the returned document is stored under its class name
StoreSchemaAndWrite ==
  /\ pc = "returned"
  /\ json_dict' = Put(json_dict, class_list[idx], json_schema)
  /\ json_keys' = IF class_list[idx] \in DOMAIN json_dict THEN json_keys
                  ELSE Append(json_keys, class_list[idx])
  /\ idx' = idx + 1
  /\ pc' = "rdf_to_json"
  /\ files' = [files EXCEPT ![FileName(class_list[idx])] = JsonDump(json_schema)]
  /\ written' = written \cup {FileName(class_list[idx])}
  /\ UNCHANGED <<inputVars, localVars, keys, rewrite, prompted, exit_code, class_list>>
StoreSchema ==
  /\ pc = "returned"
  /\ json_dict' = Put(json_dict, class_list[idx], json_schema)
  /\ json_keys' = IF class_list[idx] \in DOMAIN json_dict THEN json_keys
                  ELSE Append(json_keys, class_list[idx])
  /\ idx' = idx + 1
  /\ pc' = "rdf_to_json"
  /\ UNCHANGED <<inputVars, localVars, outputVars, exit_code, class_list>>

\* ---- main ---------------------------------------------------------------
\* line 155
AnyButNo(r) == r # "n"
ShouldOverwrite(r) == r = "y"

\* lines 151-158: one iteration of the loop over the dictionary, with
\* write_to_json (lines 139-142)
MainLoop ==
  /\ pc = "main_loop"
  /\ keys # <<>>
  /\ LET key == Head(keys)
         out_file_name == FileName(key)
     IN  /\ keys' = Tail(keys)
         /\ IF files[out_file_name] # Absent
            THEN \E r \in Responses :
                   /\ rewrite' = r
                   /\ prompted' = prompted \cup {out_file_name}
                   /\ IF ShouldOverwrite(r)
                      THEN /\ files' = [files EXCEPT ![out_file_name] =
                                                       JsonDump(json_dict[key])]
                           /\ written' = written \cup {out_file_name}
                      ELSE UNCHANGED <<files, written>>
            ELSE /\ files' = [files EXCEPT ![out_file_name] = JsonDump(json_dict[key])]
                 /\ written' = written \cup {out_file_name}
                 /\ UNCHANGED <<rewrite, prompted>>
  /\ UNCHANGED <<inputVars, localVars, pc, exit_code, class_list, idx, json_dict,
                 json_keys>>

\* the loop is over, main returns
MainDone ==
  /\ pc = "main_loop"
  /\ keys = <<>>
  /\ pc' = "done"
  /\ exit_code' = 0
  /\ UNCHANGED <<inputVars, localVars, outputVars, class_list, idx, json_dict,
                 json_keys>>

\* ---- the whole program --------------------------------------------------
ClassListArgs == {NoneVal} \cup UNION {[1..k -> ClassNames] : k \in 1..MaxClasses}
ClassFiles == {NoFile} \cup UNION {[1..k -> Lines] : k \in 0..MaxLines}
MainClassDescs == {AbsentClass, GoodClass, MalformedClass}

Init ==
  /\ \E l \in ClassListArgs, p \in {NoneVal, EmptyStr, ClassPath} :
       args = [file_path |-> <<"model.ttl">>, class_list |-> l, class_path |-> p]
  /\ class_file \in (IF args.class_path = ClassPath THEN ClassFiles ELSE {NoFile})
  /\ \E dFoo \in MainClassDescs, dBar \in MainClassDescs :
       graph = ClassTriples("Foo", dFoo) \cup ClassTriples("Bar", dBar)
               \cup {<<<<ExNS, "bar">>, RDFS_range, RangeTerm>>}
  /\ ttl_valid \in BOOLEAN
  /\ files \in [FileNames -> {Absent, OldContent}]
  /\ pc = "get_arguments"
  /\ exit_code = 0
  /\ class_list = <<>>
  /\ idx = 1
  /\ json_dict = EmptyMap
  /\ json_keys = <<>>
  /\ rdf_term = NoneVal
  /\ term_triples = {}
  /\ container_node = NoneVal
  /\ prop = NoneVal
  /\ properties = EmptyMap
  /\ required = <<>>
  /\ discovered = <<>>
  /\ json_schema = NoneVal
  /\ keys = <<>>
  /\ rewrite = ""
  /\ written = {}
  /\ prompted = {}

Next == \/ GetArguments
        \/ RdfToJson
        \/ TtlToJsonBegin
        \/ ForTriple
        \/ IfCardinality
        \/ TtlToJsonReturn
        \/ StoreSchema
        \/ MainLoop
        \/ MainDone

Spec == Init /\ [][Next]_vars

\* ---- what a graph says about a class, read off the triples --------------
Containers(g, term) == {t[3] : t \in {u \in g : u[1] = term /\ u[2] = OWL_equivalentClass}}
OnProperties(g, node) == {t[3] : t \in {u \in g : u[1] = node /\ u[2] = OWL_onProperty}}
WellFormed(g, term) == \A n \in Containers(g, term) : OnProperties(g, n) # {}
HasCardinalityOne(g, node) == <<node, OWL_cardinality, Literal(1)>> \in g
KeyOf(g, node) == N3(CHOOSE p \in OnProperties(g, node) : TRUE)
IdKey == <<"id">>
DescribedByKey == <<"describedBy">>
Draft07 == <<"http://json-schema.org/draft-07/schema#/">>
Elements(seq) == {seq[i] : i \in DOMAIN seq}

\* the keys of the nodes of a sequence that have cardinality 1, in order
RECURSIVE QualifyingKeys(_, _)
QualifyingKeys(g, nodes) ==
  IF nodes = <<>> THEN <<>>
  ELSE (IF HasCardinalityOne(g, Head(nodes)) THEN <<KeyOf(g, Head(nodes))>> ELSE <<>>)
       \o QualifyingKeys(g, Tail(nodes))

\* ---- C1 -----------------------------------------------------------------
\* C1: the `required` list of a returned document is 'id', 'describedBy' and
\* one element per container of the class whose owl:cardinality is exactly 1
\* (that container's compact key), and nothing else; handling a container
\* whose cardinality is absent, 0 or more than 1 leaves `required` as it was
\* while its compact key is in `properties`.
C1_RequiredIsCardinalityOne ==
  /\ [](pc = "returned" =>
          LET req  == json_schema["required"]
              ones == {n \in Containers(graph, rdf_term) : HasCardinalityOne(graph, n)}
          IN  /\ Len(req) = 2 + Cardinality(ones)
              /\ SubSeq(req, 1, 2) = <<IdKey, DescribedByKey>>
              /\ {req[i] : i \in 3..Len(req)} = {KeyOf(graph, n) : n \in ones}
              /\ \A n \in Containers(graph, rdf_term) :
                   KeyOf(graph, n) \in DOMAIN json_schema["properties"])
  /\ [][(pc = "if_cardinality" /\ ~HasCardinalityOne(graph, container_node))
          => (required' = required /\ N3(prop) \in DOMAIN properties')]_vars

\* a document was returned for a class with a cardinality-1 container and a
\* container of another (or no) cardinality
C1_Witness ==
  /\ pc = "returned"
  /\ \E n, m \in Containers(graph, rdf_term) :
       /\ HasCardinalityOne(graph, n)
       /\ ~HasCardinalityOne(graph, m)
       /\ KeyOf(graph, n) # KeyOf(graph, m)
  /\ Len(json_schema["required"]) = 3

\* ---- C2 -----------------------------------------------------------------
\* C2 as stated: the number of keys of `properties` is 2 plus the number of
\* owl:equivalentClass triples of the class, also when two containers name
\* the same owl:onProperty.
C2_OneKeyPerTriple ==
  pc = "returned" =>
    /\ {IdKey, DescribedByKey} \subseteq DOMAIN json_schema["properties"]
    /\ Cardinality(DOMAIN json_schema["properties"])
         = 2 + Cardinality(Containers(graph, rdf_term))

\* C2 amended: the keys of `properties` are 'describedBy', 'id' and one key
\* per distinct owl:onProperty value named by the containers of the class, so
\* their number is 2 plus the number of distinct properties named; it is 2
\* plus the number of triples when no two containers name the same property.
C2_OneKeyPerDistinctProperty ==
  pc = "returned" =>
    LET named == UNION {OnProperties(graph, n) : n \in Containers(graph, rdf_term)}
        ks    == DOMAIN json_schema["properties"]
    IN  /\ {IdKey, DescribedByKey} \subseteq ks
        /\ \A n \in Containers(graph, rdf_term) : KeyOf(graph, n) \in ks
        /\ Cardinality(ks) = 2 + Cardinality(named)
        /\ (Cardinality(named) = Cardinality(Containers(graph, rdf_term))
              => Cardinality(ks) = 2 + Cardinality(Containers(graph, rdf_term)))

\* a document was returned for a class with two containers naming one property
C2_Witness ==
  /\ pc = "returned"
  /\ Cardinality(Containers(graph, rdf_term)) = 2
  /\ Cardinality(DOMAIN json_schema["properties"]) = 3

\* ---- C3 -----------------------------------------------------------------
\* C3: at every point of ttl_to_json every element of `required` is a key of
\* `properties`, and `required` is ['id', 'describedBy'] followed by the keys
\* of the cardinality-1 containers in the order the loop met them.
C3_RequiredWithinProperties ==
  /\ (pc \in {"for_triple", "if_cardinality", "returned"} =>
        /\ Elements(required) \subseteq DOMAIN properties
        /\ LET met == IF pc = "if_cardinality"
                      THEN SubSeq(discovered, 1, Len(discovered) - 1)
                      ELSE discovered
           IN  required = <<IdKey, DescribedByKey>> \o QualifyingKeys(graph, met))
  /\ (pc = "returned" =>
        /\ json_schema["required"] = required
        /\ Elements(json_schema["required"]) \subseteq DOMAIN json_schema["properties"])

\* a document with two qualifying containers of different keys was returned
C3_Witness ==
  /\ pc = "returned"
  /\ Len(json_schema["required"]) = 4
  /\ json_schema["required"][3] # json_schema["required"][4]

\* ---- C4 -----------------------------------------------------------------
\* C4: once get_arguments is over, a command line with both a class list and
\* a class path, or with neither, has made the process exit with a non-zero
\* status, no graph loaded and no file written; a command line with exactly
\* one of them has not.
C4_UsageErrorIffBothOrNeither ==
  pc # "get_arguments" =>
    IF (args.class_list # NoneVal) = (args.class_path # NoneVal)
    THEN /\ pc = "exit"
         /\ exit_code # 0
         /\ rdf_term = NoneVal
         /\ written = {}
    ELSE pc # "exit"

BareSchema(c) ==
  ("$id" :> <<TerraNS, c>>)
  @@ ("$schema" :> Draft07)
  @@ ("title" :> NoneVal)
  @@ ("description" :> <<"None">>)
  @@ ("definitions" :> EmptyMap)
  @@ ("type" :> <<"object">>)
  @@ ("additionalProperties" :> TRUE)
  @@ ("properties" :> InitialProperties)
  @@ ("required" :> <<IdKey, DescribedByKey>>)

C7_MissingOnPropertyAborts ==
  /\ [](\A c \in ClassNames :
          ~WellFormed(graph, Terra(c)) =>
            /\ c \notin DOMAIN json_dict
            /\ ~(pc = "returned" /\ rdf_term = Terra(c)))
  /\ []((pc \in {"for_triple", "if_cardinality"} /\ ~WellFormed(graph, rdf_term))
          => \/ \E t \in term_triples :
                  t[2] = OWL_equivalentClass /\ OnProperties(graph, t[3]) = {}
             \/ pc = "aborted")
  /\ [](pc \in {"main_loop", "done"} =>
          \A i \in DOMAIN class_list : WellFormed(graph, Terra(class_list[i])))
  /\ [](pc = "aborted" => (exit_code # 0 /\ written = {}))
  /\ [][pc # "aborted"]_vars

\* the run aborted on a malformed container with classes left in the list
C7_Witness ==
  /\ pc = "aborted"
  /\ container_node # NoneVal
  /\ OnProperties(graph, container_node) = {}
  /\ idx < Len(class_list)
  /\ class_list[idx + 1] \notin DOMAIN json_dict

\* ---- C8 -----------------------------------------------------------------
\* C8: an iteration of main's loop for a file that exists asks the user; any
\* answer but 'y' leaves the file as it is, 'y' writes the document; a file
\* that does not exist is written without asking; in every case no other file
\* changes, no error is raised and the loop goes on with the remaining
\* classes, so that at the end every class was either written or asked about.
C8_DeclineSkipsFile ==
  /\ [][(pc = "main_loop" /\ keys # <<>>) =>
          LET n == FileName(Head(keys))
          IN  /\ pc' = "main_loop"
              /\ keys' = Tail(keys)
              /\ exit_code' = exit_code
              /\ \A m \in FileNames \ {n} : files'[m] = files[m]
              /\ IF files[n] # Absent
                 THEN /\ n \in prompted'
                      /\ rewrite' # "y" => files'[n] = files[n]
                      /\ rewrite' = "y" => files'[n] = JsonDump(json_dict[Head(keys)])
                 ELSE /\ prompted' = prompted
                      /\ files'[n] = JsonDump(json_dict[Head(keys)]) ]_vars
  /\ [](pc = "done" =>
          \A c \in DOMAIN json_dict :
            /\ FileName(c) \in written \cup prompted
            /\ FileName(c) \notin written => files[FileName(c)] = OldContent)

\* the run is over; the user declined one file and another was written after
C8_Witness ==
  /\ pc = "done"
  /\ rewrite \notin {"y", "n"}
  /\ \E n \in prompted : files[n] = OldContent
  /\ \E m \in written : m \notin prompted

\* ---- C9 -----------------------------------------------------------------
\* the class has one container, of cardinality 1
SingleRequiredContainer ==
  /\ Cardinality(Containers(graph, rdf_term)) = 1
  /\ \A n \in Containers(graph, rdf_term) : HasCardinalityOne(graph, n)

\* C9 as stated: for a class with one container, of cardinality 1, naming
\* property p, `required` is ['id', 'describedBy', compact(p)] and the '$ref'
\* of p's entry is the compact form of p's rdfs:range, null without a range.
C9_RefIsCompactRange ==
  (pc = "returned" /\ SingleRequiredContainer) =>
    \A n \in Containers(graph, rdf_term) :
      LET p == CHOOSE q \in OnProperties(graph, n) : TRUE
          r == GValue(graph, p, RDFS_range)
      IN  /\ json_schema["required"] = <<IdKey, DescribedByKey, N3(p)>>
          /\ json_schema["properties"][N3(p)]["$ref"]
               = (IF r = NoneVal THEN NoneVal ELSE N3(r))

\* C9 amended: for such a class `required` is ['id', 'describedBy',
\* compact(p)] and the '$ref' of p's entry is the rdfs:range value itself,
\* the full IRI and not its compact form; it is null without a range.
C9_RefIsRangeIri ==
  (pc = "returned" /\ SingleRequiredContainer) =>
    \A n \in Containers(graph, rdf_term) :
      LET p == CHOOSE q \in OnProperties(graph, n) : TRUE
          r == {t[3] : t \in {u \in graph : u[1] = p /\ u[2] = RDFS_range}}
      IN  /\ json_schema["required"] = <<IdKey, DescribedByKey, N3(p)>>
          /\ json_schema["properties"][N3(p)]["description"] = N3(p)
          /\ r = {} => json_schema["properties"][N3(p)]["$ref"] = NoneVal
          /\ \A x \in r : /\ json_schema["properties"][N3(p)]["$ref"] = x
                          /\ json_schema["properties"][N3(p)]["$ref"] # N3(x)

\* a document was returned for such a class whose property has a range
C9_Witness ==
  /\ pc = "returned"
  /\ SingleRequiredContainer
  /\ json_schema["properties"][json_schema["required"][3]]["$ref"] = RangeTerm

\* ---- C10 ----------------------------------------------------------------
\* C10: for a class with triples, a missing rdfs:label or definition is no
\* failure (the only aborts are an unreadable file and a container without
\* owl:onProperty); the document has the class term as '$id', the draft-07
\* '$schema', the properties and required keys its containers give, a null
\* title without a label and the description 'None' without a definition.
C10_MissingLabelOrDefinition ==
  /\ (pc = "aborted" => (~ttl_valid \/ ~WellFormed(graph, Terra(class_list[idx]))))
  /\ ((pc = "returned" /\ GTriples(graph, rdf_term) # {}) =>
        LET cs == Containers(graph, rdf_term)
        IN  /\ json_schema["$id"] = <<TerraNS, class_list[idx]>>
            /\ json_schema["$schema"] = Draft07
            /\ DOMAIN json_schema["properties"]
                 = {IdKey, DescribedByKey} \cup {KeyOf(graph, n) : n \in cs}
            /\ Elements(json_schema["required"])
                 = {IdKey, DescribedByKey}
                   \cup {KeyOf(graph, n) : n \in {m \in cs : HasCardinalityOne(graph, m)}}
            /\ json_schema["title"]
                 = (IF <<rdf_term, RDFS_label, LabelOf(class_list[idx])>> \in graph
                    THEN LabelOf(class_list[idx]) ELSE NoneVal)
            /\ json_schema["description"]
                 = (IF <<rdf_term, Prov_definition, DefinitionOf(class_list[idx])>> \in graph
                    THEN DefinitionOf(class_list[idx]) ELSE <<"None">>))

\* a document was returned for a class with a container and a definition
\* but no label
C10_Witness ==
  /\ pc = "returned"
  /\ Containers(graph, rdf_term) # {}
  /\ json_schema["title"] = NoneVal
  /\ json_schema["description"] = DefinitionOf(class_list[idx])

====
